---- MODULE Spec2Model ----
(***************************************************************************)
(* Model of the VPN -> BigQuery/GCS reconciliation engine                  *)
(* (src/vpn/sync.py, src/vpn/gcs_operations.py,                            *)
(* src/vpn/bigquery_operations.py).                                        *)
(*                                                                         *)
(* Three stores are reconciled: the source tree (vpn_data), the metadata   *)
(* table (bq_table) and the blob store (gcs_bucket).  One run of           *)
(* VPNSynchronizer.sync is a sequence of steps driven by pc.               *)
(***************************************************************************)
EXTENDS Integers, Sequences, FiniteSets, TLC

\* ---------------------------------------------------------------- bounds
NumKeys == 2
MaxFailures == 1
MaxTolerance == 1
\* latest wall-clock reading of a timestamp handed to normalize_timestamp
MaxWall == 2
\* times normalize_timestamp is applied to one value
MaxApplications == 2

Keys == 1..NumKeys
\* Timestamps are only ever compared with one another, so two values give
\* every case: equal and different.
Times == {1, 2}
\* Values of SYNC_USE_JSONL_THRESHOLD: "every insert is staged" and
\* "no insert is staged".
Thresholds == {1, NumKeys + 1}

\* ------------------------------------------------ configuration constants
\* Config.SYNC_BATCH_SIZE: rows per DELETE statement.
SYNC_BATCH_SIZE == 1
\* Config.UPLOAD_RETRY_ATTEMPTS: attempts per uploaded file.
UPLOAD_RETRY_ATTEMPTS == 2

\* The elements of a list.
Range(seq) == {seq[i] : i \in 1..Len(seq)}

\* ------------------------------------------------------------- snapshots
\* A snapshot maps a subset of the keys to timestamps.
Snapshots == UNION {[D -> Times] : D \in SUBSET Keys}

\* The rows of a table holding exactly the entries of a snapshot.
Rows(f) == {<<k, f[k]>> : k \in DOMAIN f}

\* sync.py 110-113: the dict built from the rows of the metadata table.
bq_data_of(table) ==
  [k \in {r[1] : r \in table} |-> CHOOSE t \in Times : <<k, t>> \in table]

\* ------------------------------------------------------------ classifier
\* sync.py 140: to_add = vpn_paths - bq_paths
to_add_m(vpn_paths, bq_paths) == vpn_paths
to_add_of(vpn_paths, bq_paths) == vpn_paths \ bq_paths

\* sync.py 143: to_delete = bq_paths - vpn_paths   (a Python set)
to_delete_m(vpn_paths, bq_paths) == bq_paths
to_delete_of(vpn_paths, bq_paths) == bq_paths \ vpn_paths

\* sync.py 149: vpn_data[path] != bq_data[path]   (exact comparison; the
\* configured tolerance is not an operand)
timestamps_differ_m(a, b) == a > b
timestamps_differ(a, b) == a # b

\* sync.py 146-150: common paths whose timestamps differ
changed_of(vpn_data, bq_data) ==
  {p \in (DOMAIN vpn_data) \cap (DOMAIN bq_data) :
       timestamps_differ(vpn_data[p], bq_data[p])}

\* sync.py 124-125
gcs_only_of(gcs_paths, bq_paths) == gcs_paths \ bq_paths
bq_only_of(gcs_paths, bq_paths) == bq_paths \ gcs_paths

\* sync.py 155: gcs_orphans = gcs_only - vpn_paths
gcs_orphans_of(gcs_only, vpn_paths) == gcs_only \ vpn_paths

\* sync.py 168: bq_missing_gcs = bq_only & vpn_paths
bq_missing_gcs_m(bq_only, vpn_paths) == bq_only
bq_missing_gcs_of(bq_only, vpn_paths) == bq_only \cap vpn_paths

\* sync.py 136-175.  The values of the three locals when the classifier
\* ends.  to_delete is a set, and a set has no method `extend`: line 158
\* raises AttributeError whenever gcs_orphans is non-empty, and the locals
\* keep what lines 140-150 gave them (raised = TRUE).
Classify(vpn_data, bq_data, gcs_paths) ==
  LET vpn_paths == DOMAIN vpn_data
      bq_paths  == DOMAIN bq_data
      gcs_only  == gcs_only_of(gcs_paths, bq_paths)
      bq_only   == bq_only_of(gcs_paths, bq_paths)
      orphans   == gcs_orphans_of(gcs_only, vpn_paths)
      missing   == bq_missing_gcs_of(bq_only, vpn_paths)
  IN  IF orphans # {}
        THEN [to_add    |-> to_add_of(vpn_paths, bq_paths),
              to_delete |-> to_delete_of(vpn_paths, bq_paths),
              to_update |-> changed_of(vpn_data, bq_data),
              raised    |-> TRUE]
        ELSE [to_add    |-> to_add_of(vpn_paths, bq_paths),
              to_delete |-> to_delete_of(vpn_paths, bq_paths),
              to_update |-> changed_of(vpn_data, bq_data) \cup missing,
              raised    |-> FALSE]

\* ---------------------------------------------------- transfer primitives
AttemptOutcomes == {"ok", "gce", "exc"}

\* What happens to one uploaded file: whether the local file still exists
\* and what each attempt of blob.upload_from_filename does ("gce" is a
\* GoogleCloudError, "exc" any other exception).
\* Attempts that are never made are written "ok", so that each course of
\* events is listed once.
Fates ==
  {f \in [exists : BOOLEAN,
          attempts : [1..UPLOAD_RETRY_ATTEMPTS -> AttemptOutcomes]] :
     \A i \in 1..UPLOAD_RETRY_ATTEMPTS :
        (~f.exists \/ \E j \in 1..(i - 1) : f.attempts[j] # "gce")
           => f.attempts[i] = "ok"}

\* gcs_operations.py 70-89: the retry loop of upload_file, from `attempt` on.
RECURSIVE upload_attempts(_, _)
upload_attempts(attempts, attempt) ==
  IF attempt > UPLOAD_RETRY_ATTEMPTS THEN FALSE
  ELSE IF attempts[attempt] = "ok" THEN TRUE
  ELSE IF attempts[attempt] = "gce"
         THEN IF attempt < UPLOAD_RETRY_ATTEMPTS
                THEN upload_attempts(attempts, attempt + 1)
                ELSE FALSE
  ELSE FALSE

\* gcs_operations.py 61-89
upload_file(fate) ==
  IF ~fate.exists THEN FALSE ELSE upload_attempts(fate.attempts, 1)

\* gcs_operations.py 108-131: every entry is processed; a file that fails
\* is counted and the loop goes on.
upload_files(batch, fate) ==
  LET ok == {k \in batch : upload_file(fate[k])}
  IN  [successes |-> Cardinality(ok),
       failures  |-> Cardinality(batch \ ok),
       successful_paths |-> ok]

\* The orders in which a batch may be iterated (list(set(...))).
Orders(S) ==
  {o \in [1..Cardinality(S) -> S] :
     \A i, j \in 1..Cardinality(S) : i # j => o[i] # o[j]}

\* delete_file without the blob.exists() test of line 146: blob.delete()
\* on an absent blob raises NotFound, a GoogleCloudError, caught at 152.
delete_file_m(bucket, blob_path, outcome) ==
  IF outcome = "ok"
    THEN IF blob_path \in bucket
           THEN [bucket |-> bucket \ {blob_path}, returned |-> "True"]
           ELSE [bucket |-> bucket, returned |-> "False"]
  ELSE IF outcome = "gce"
    THEN [bucket |-> bucket, returned |-> "False"]
  ELSE [bucket |-> bucket, returned |-> "raised"]

\* gcs_operations.py 133-154: when the calls to the store work ("ok"), a
\* blob that exists is deleted and an absent one is only logged, and both
\* return True; a GoogleCloudError ("gce") is caught and returns False;
\* any other exception ("exc") leaves delete_file.
delete_file(bucket, blob_path, outcome) ==
  IF outcome = "ok"
    THEN IF blob_path \in bucket
           THEN [bucket |-> bucket \ {blob_path}, returned |-> "True"]
           ELSE [bucket |-> bucket, returned |-> "True"]
  ELSE IF outcome = "gce"
    THEN [bucket |-> bucket, returned |-> "False"]
  ELSE [bucket |-> bucket, returned |-> "raised"]

\* gcs_operations.py 171-189: delete_file is called on every entry and
\* its result counted; an exception it does not catch leaves the loop.
RECURSIVE gcs_delete_loop(_, _, _, _)
gcs_delete_loop(order, kind, idx, acc) ==
  IF idx > Len(order) THEN acc
  ELSE LET p == order[idx]
           r == delete_file(acc.bucket, p, kind[p])
       IN  IF r.returned = "True"
             THEN gcs_delete_loop(order, kind, idx + 1,
                    [acc EXCEPT !.bucket = r.bucket, !.successes = @ + 1])
           ELSE IF r.returned = "False"
             THEN gcs_delete_loop(order, kind, idx + 1,
                    [acc EXCEPT !.failures = @ + 1])
           ELSE [acc EXCEPT !.raised = TRUE]

gcs_delete_files(bucket, order, kind) ==
  gcs_delete_loop(order, kind, 1,
    [bucket |-> bucket, successes |-> 0, failures |-> 0, raised |-> FALSE])

\* bigquery_operations.py 285-311: DELETE statements of SYNC_BATCH_SIZE
\* keys each; the batch numbered fail_at (0: none) raises, the batches
\* before it have been applied.
bq_delete_files(table, order, fail_at) ==
  LET n == Len(order)
      done == IF fail_at = 0 THEN n ELSE (fail_at - 1) * SYNC_BATCH_SIZE
      gone == {order[i] : i \in 1..(IF done < n THEN done ELSE n)}
  IN  [table |-> {r \in table : r[1] \notin gone},
       raised |-> fail_at # 0]

NumBatches(n) == (n + SYNC_BATCH_SIZE - 1) \div SYNC_BATCH_SIZE

\* bigquery_operations.py 220-265: line 236 evaluates the undefined name
\* `value`, so writing the first row raises NameError and nothing is
\* staged or loaded; with no row the load job runs on an empty file.
insert_via_jsonl(file_data, table, truncate) ==
  IF file_data # {}
    THEN [table |-> table, raised |-> TRUE]
    ELSE [table |-> IF truncate THEN {} ELSE table, raised |-> FALSE]

\* bigquery_operations.py 203-218: WRITE_APPEND load job.
insert_via_dataframe(file_data, table, job_ok) ==
  IF job_ok THEN [table |-> table \cup file_data, raised |-> FALSE]
            ELSE [table |-> table, raised |-> TRUE]

\* bigquery_operations.py 187-201
insert_files(file_data, table, use_jsonl, threshold, job_ok) ==
  IF file_data = {} THEN [table |-> table, raised |-> FALSE]
  ELSE IF use_jsonl /\ Cardinality(file_data) >= threshold
    THEN insert_via_jsonl(file_data, table, FALSE)
    ELSE insert_via_dataframe(file_data, table, job_ok)

\* bigquery_operations.py 356-362: MERGE ... WHEN MATCHED THEN UPDATE
merge_rows(table, staged) ==
  {IF \E s \in staged : s[1] = r[1]
     THEN <<r[1], (CHOOSE s \in staged : s[1] = r[1])[2]>>
     ELSE r : r \in table}

\* bigquery_operations.py 329-376: stage the pairs in a temporary table
\* through _insert_via_jsonl, then merge.
update_files(file_updates, table, job_ok) ==
  IF file_updates = {} THEN [table |-> table, raised |-> FALSE]
  ELSE LET staged == insert_via_jsonl(file_updates, {}, TRUE)
       IN  IF staged.raised THEN [table |-> table, raised |-> TRUE]
           ELSE IF ~job_ok THEN [table |-> table, raised |-> TRUE]
           ELSE [table |-> merge_rows(table, file_updates), raised |-> FALSE]

\* sync.py 298-304 / 411-417
successfully_uploaded_m(batch, successful_gcs_paths) == batch
successfully_uploaded_of(batch, successful_gcs_paths) ==
  {p \in batch : p \in successful_gcs_paths}

\* sync.py 314-320 / 424
rows_for_m(paths, data) == {<<p, data[p]>> : p \in DOMAIN data}
rows_for(paths, data) == {<<p, data[p]>> : p \in paths}

\* ----------------------------------------------------------------- state
VARIABLES
  vpn_data,      \* source tree: key -> timestamp
  bq_table,      \* metadata table: set of rows <<file_path, updated_at>>
  gcs_bucket,    \* blob store: set of blob names
  log_table,     \* rows appended to the log table by the current run
  SYNC_USE_JSONL_THRESHOLD,     \* Config value (config.py 31)
  SYNC_TIME_TOLERANCE_SECONDS,  \* Config value (config.py 32)
  pc,            \* position of the run inside sync()
  dry_run,       \* argument of sync()
  classified,    \* lines 140-150 were executed in this run
  to_add, to_delete, to_update,
  error_occurred, error_message,
  files_added, files_deleted, files_updated,
  successfully_uploaded,   \* local of _add_files / _update_files
  result,        \* <<>> or <<the dict returned by sync()>>
  failures_left, \* environment failures that may still happen
  env_failed,    \* some store or transfer operation failed in this run
  phases,        \* steps executed by this run, in order
  verify_report, \* what _verify_final_consistency reported in this run
  uploaded_ok,   \* keys whose upload_file returned True in this run
  delete_success,  \* what _delete_files returned to sync in this run
  gcs_call,      \* a call of upload_files / delete_files, step by step
  ts_call        \* values handed to normalize_timestamp and what it gave

vars == <<vpn_data, bq_table, gcs_bucket, log_table,
          SYNC_USE_JSONL_THRESHOLD, SYNC_TIME_TOLERANCE_SECONDS,
          pc, dry_run, classified, to_add, to_delete, to_update,
          error_occurred, error_message,
          files_added, files_deleted, files_updated,
          successfully_uploaded, result, failures_left, env_failed, phases,
          verify_report, uploaded_ok, delete_success, gcs_call, ts_call>>

stores == <<vpn_data, bq_table, gcs_bucket>>
calls == <<gcs_call, ts_call>>
config == <<SYNC_USE_JSONL_THRESHOLD, SYNC_TIME_TOLERANCE_SECONDS>>

\* sync.py 69-74: the locals at the start of a run.
RunLocals ==
  /\ classified = FALSE
  /\ to_add = {} /\ to_delete = {} /\ to_update = {}
  /\ error_occurred = FALSE /\ error_message = "None"
  /\ files_added = 0 /\ files_deleted = 0 /\ files_updated = 0
  /\ successfully_uploaded = {}
  /\ result = <<>>
  /\ env_failed = FALSE
  /\ phases = <<>>
  /\ verify_report = {"not_run"}
  /\ uploaded_ok = {}
  /\ log_table = <<>>
  /\ delete_success = "unset"

\* No call of upload_files / delete_files is followed step by step.
NoCall ==
  [op |-> "none", file_list |-> <<>>, fate |-> <<>>, kind |-> <<>>,
   idx |-> 1, at |-> "returned", attempt |-> 0,
   attempts_made |-> [k \in Keys |-> 0], sleeps |-> [k \in Keys |-> 0],
   successes |-> 0, failures |-> 0, successful_paths |-> <<>>,
   verdict |-> [k \in Keys |-> "none"],
   bucket |-> {}, bucket_before |-> {}]

\* No value is being normalized outside a run.
NoTimestamps == [input |-> <<>>, value |-> <<>>, applied |-> <<>>]

\* Any source tree, any metadata table with one row per key, any bucket.
InitStores ==
  /\ gcs_call = NoCall
  /\ ts_call = NoTimestamps
  /\ vpn_data \in Snapshots
  /\ bq_table \in {Rows(f) : f \in Snapshots}
  /\ gcs_bucket \in SUBSET Keys
  /\ pc = "idle"
  /\ dry_run = FALSE
  /\ RunLocals

Init ==
  /\ InitStores
  /\ SYNC_USE_JSONL_THRESHOLD \in Thresholds
  /\ SYNC_TIME_TOLERANCE_SECONDS = 0
  /\ failures_left = MaxFailures

\* ------------------------------------------------------------ phase order
\* sync.py 212-231: the three executing phases, in program order.
PhaseOrder_m == <<"add", "delete", "update">>
PhaseOrder == <<"delete", "add", "update">>

\* The first step of a phase.
FirstStep(phase) ==
  CASE phase = "delete" -> "delete_bq"
    [] phase = "add"    -> "add_upload"
    [] phase = "update" -> "update_upload"

\* The position of a phase in the program.
PhaseIndex(phase) == CHOOSE i \in 1..Len(PhaseOrder) : PhaseOrder[i] = phase

\* sync.py 213, 220, 227: `if len(to_...) > 0` in front of each phase; the
\* step the run goes to from the i-th phase on, the verifier (233-235) when
\* no phase is left.
RECURSIVE PhaseFrom(_, _, _, _)
PhaseFrom(i, del, add, upd) ==
  IF i > Len(PhaseOrder) THEN "verify"
  ELSE LET batch == CASE PhaseOrder[i] = "delete" -> del
                      [] PhaseOrder[i] = "add"    -> add
                      [] PhaseOrder[i] = "update" -> upd
       IN  IF batch # {} THEN FirstStep(PhaseOrder[i])
                         ELSE PhaseFrom(i + 1, del, add, upd)

\* Where the run goes when a phase has returned.
After(phase, del, add, upd) == PhaseFrom(PhaseIndex(phase) + 1, del, add, upd)

\* file_scanner.py 35-57: the entries found under the base path
scan_files_m(tree) ==
  IF pc = "idle" THEN Rows(tree) ELSE {<<r[1], 1>> : r \in Rows(tree)}
scan_files(tree) == Rows(tree)

\* sync.py 96-104: the dict built from the entries of the scan.
vpn_data_of(vpn_files) ==
  [k \in {r[1] : r \in vpn_files} |->
     CHOOSE t \in Times : <<k, t>> \in vpn_files]

\* sync.py 82: `if not vpn_files`
EmptySource_m(vpn_files) == FALSE
EmptySource(vpn_files) == vpn_files = {}

\* ---------------------------------------------------------------- actions
Outcome(ok, a, d, u, msg) ==
  [success |-> ok, files_added |-> a, files_deleted |-> d,
   files_updated |-> u, error_message |-> msg]

\* sync.py 241-250: the top-level `except Exception`
Caught ==
  /\ error_occurred' = TRUE
  /\ error_message' = "exception"
  /\ pc' = "log"

\* sync.py 69-208: scan, read the three snapshots, classify, and the early
\* returns.  fault names the read that raises, if any.
StartSync(dry, fault) ==
  /\ pc \in {"idle", "done"}
  /\ dry_run' = dry
  /\ successfully_uploaded' = {}
  /\ verify_report' = {"not_run"}
  /\ uploaded_ok' = {}
  /\ log_table' = <<>>
  /\ delete_success' = "unset"
  /\ phases' = <<"classify">>
  /\ UNCHANGED <<stores, config, calls>>
  /\ IF fault # "none"
       THEN /\ failures_left > 0
            /\ fault # "scan" => ~EmptySource(scan_files(vpn_data))
            /\ failures_left' = failures_left - 1
            /\ env_failed' = TRUE
            /\ classified' = FALSE
            /\ to_add' = {} /\ to_delete' = {} /\ to_update' = {}
            /\ files_added' = 0 /\ files_deleted' = 0 /\ files_updated' = 0
            /\ result' = <<>>
            /\ Caught
       ELSE
         /\ UNCHANGED failures_left
         /\ env_failed' = FALSE
         /\ IF EmptySource(scan_files(vpn_data))
              THEN /\ classified' = FALSE
                   /\ to_add' = {} /\ to_delete' = {} /\ to_update' = {}
                   /\ files_added' = 0 /\ files_deleted' = 0
                   /\ files_updated' = 0
                   /\ error_occurred' = FALSE /\ error_message' = "None"
                   /\ result' = <<Outcome(FALSE, 0, 0, 0, "No files found")>>
                   /\ pc' = "log"
              ELSE
                LET c == Classify(vpn_data_of(scan_files(vpn_data)),
                                  bq_data_of(bq_table), gcs_bucket)
                    na == Cardinality(c.to_add)
                    nd == Cardinality(c.to_delete)
                    nu == Cardinality(c.to_update)
                IN  /\ classified' = TRUE
                    /\ to_add' = c.to_add
                    /\ to_delete' = c.to_delete
                    /\ to_update' = c.to_update
                    /\ IF c.raised
                         THEN /\ files_added' = 0 /\ files_deleted' = 0
                              /\ files_updated' = 0
                              /\ result' = <<>>
                              /\ Caught
                         ELSE
                           /\ files_added' = na /\ files_deleted' = nd
                           /\ files_updated' = nu
                           /\ error_occurred' = FALSE
                           /\ error_message' = "None"
                           /\ IF dry
                                THEN /\ result' =
                                          <<Outcome(TRUE, na, nd, nu, "None")>>
                                     /\ pc' = "log"
                                ELSE IF na = 0 /\ nd = 0 /\ nu = 0
                                THEN /\ result' =
                                          <<Outcome(TRUE, 0, 0, 0, "None")>>
                                     /\ pc' = "log"
                                ELSE /\ result' = <<>>
                                     /\ pc' = PhaseFrom(1, c.to_delete,
                                                 c.to_add, c.to_update)

run_ctx == <<dry_run, classified, to_add, to_delete, to_update,
             files_added, files_deleted, files_updated>>

NotOk(S, kind) == Cardinality({k \in S : kind[k] # "ok"})

\* sync.py 356-363: _delete_files, the metadata-table delete; an exception
\* is logged and the phase goes on to the blob store.
DeleteBq_m ==
  /\ pc = "delete_bq"
  /\ \E order \in Orders(to_delete), fail_at \in 0..NumBatches(Cardinality(to_delete)) :
       LET r == bq_delete_files(bq_table, order, fail_at)
       IN  /\ fail_at # 0 => failures_left > 0
           /\ bq_table' = r.table
           /\ failures_left' = IF r.raised THEN failures_left - 1
                                           ELSE failures_left
           /\ env_failed' = (env_failed \/ r.raised)
           /\ IF r.raised
                THEN Caught
                ELSE /\ pc' = "delete_gcs"
                     /\ UNCHANGED <<error_occurred, error_message>>
  /\ phases' = Append(phases, "delete_bq")
  /\ UNCHANGED <<vpn_data, gcs_bucket, log_table, config, calls,
                 delete_success, run_ctx,
                 successfully_uploaded, result, verify_report, uploaded_ok>>
DeleteBq ==
  /\ pc = "delete_bq"
  /\ \E order \in Orders(to_delete), fail_at \in 0..NumBatches(Cardinality(to_delete)) :
       LET r == bq_delete_files(bq_table, order, fail_at)
       IN  /\ fail_at # 0 => failures_left > 0
           /\ bq_table' = r.table
           /\ failures_left' = IF r.raised THEN failures_left - 1
                                           ELSE failures_left
           /\ env_failed' = (env_failed \/ r.raised)
  /\ pc' = "delete_gcs"
  /\ phases' = Append(phases, "delete_bq")
  /\ UNCHANGED <<vpn_data, gcs_bucket, log_table, config, calls,
                 delete_success, run_ctx,
                 error_occurred, error_message, successfully_uploaded,
                 result, verify_report, uploaded_ok>>

\* sync.py 375-383: what _delete_files returns; only the count of blob
\* deletes is compared with the length of delete_list.
delete_files_returns(successes, n) ==
  IF successes = n THEN "True" ELSE "False"

\* sync.py 365-383: _delete_files, the blob-store delete and the return.
DeleteGcs ==
  /\ pc = "delete_gcs"
  /\ \E order \in Orders(to_delete), kind \in [to_delete -> AttemptOutcomes] :
       LET r == gcs_delete_files(gcs_bucket, order, kind)
       IN  /\ NotOk(to_delete, kind) <= failures_left
           /\ gcs_bucket' = r.bucket
           /\ failures_left' = failures_left - NotOk(to_delete, kind)
           /\ env_failed' = (env_failed \/ NotOk(to_delete, kind) > 0)
           /\ IF r.raised
                THEN /\ Caught
                     /\ UNCHANGED delete_success
                ELSE /\ pc' = After("delete", to_delete, to_add, to_update)
                     /\ delete_success' = delete_files_returns(r.successes,
                                                               Len(order))
                     /\ UNCHANGED <<error_occurred, error_message>>
  /\ phases' = Append(phases, "delete_gcs")
  /\ UNCHANGED <<vpn_data, bq_table, log_table, config, calls, run_ctx,
                 successfully_uploaded, result, verify_report, uploaded_ok>>

\* The upload half of _add_files / _update_files: upload_files over the
\* batch, then the list of the keys that made it.
Upload(batch, fate) ==
  LET r == upload_files(batch, fate)
  IN  /\ r.failures <= failures_left
      /\ gcs_bucket' = gcs_bucket \cup r.successful_paths
      /\ uploaded_ok' = uploaded_ok \cup r.successful_paths
      /\ successfully_uploaded' =
           successfully_uploaded_of(batch, r.successful_paths)
      /\ failures_left' = failures_left - r.failures
      /\ env_failed' = (env_failed \/ r.failures > 0)

\* sync.py 306-311: `if failures > 0: ... if not successfully_uploaded:
\* return False`, the insert is skipped.
no_upload_succeeded_m(failures, uploaded) == FALSE
no_upload_succeeded(failures, uploaded) == failures > 0 /\ uploaded = {}

\* sync.py 284-311: _add_files up to the decision to insert.
AddUpload ==
  /\ pc = "add_upload"
  /\ \E fate \in [to_add -> Fates] :
       /\ Upload(to_add, fate)
       /\ pc' = IF no_upload_succeeded(upload_files(to_add, fate).failures,
                                       successfully_uploaded')
                  THEN After("add", to_delete, to_add, to_update)
                  ELSE "add_insert"
  /\ phases' = Append(phases, "add_upload")
  /\ UNCHANGED <<vpn_data, bq_table, log_table, config, calls,
                 delete_success, run_ctx,
                 error_occurred, error_message, result, verify_report>>

\* sync.py 313-344: _add_files, the metadata insert of the uploaded keys.
AddInsert ==
  /\ pc = "add_insert"
  /\ \E job_ok \in BOOLEAN :
       LET add_data == rows_for(successfully_uploaded, vpn_data)
           jsonl == Cardinality(add_data) >= SYNC_USE_JSONL_THRESHOLD
           r == insert_files(add_data, bq_table, TRUE,
                             SYNC_USE_JSONL_THRESHOLD, job_ok)
       IN  /\ ~job_ok => (~jsonl /\ failures_left > 0)
           /\ bq_table' = r.table
           /\ failures_left' = IF job_ok THEN failures_left
                                         ELSE failures_left - 1
           /\ env_failed' = (env_failed \/ ~job_ok)
  /\ pc' = After("add", to_delete, to_add, to_update)
  /\ phases' = Append(phases, "add_insert")
  /\ UNCHANGED <<vpn_data, gcs_bucket, log_table, config, calls,
                 delete_success, run_ctx,
                 error_occurred, error_message, successfully_uploaded,
                 result, verify_report, uploaded_ok>>

\* sync.py 395-423: _update_files up to the decision to merge.
UpdateUpload ==
  /\ pc = "update_upload"
  /\ \E fate \in [to_update -> Fates] :
       Upload(to_update, fate)
  /\ pc' = IF successfully_uploaded' # {}
             THEN "update_merge"
             ELSE After("update", to_delete, to_add, to_update)
  /\ phases' = Append(phases, "update_upload")
  /\ UNCHANGED <<vpn_data, bq_table, log_table, config, calls,
                 delete_success, run_ctx,
                 error_occurred, error_message, result, verify_report>>

\* sync.py 423-444: _update_files, the merge of the uploaded keys.
UpdateMerge ==
  /\ pc = "update_merge"
  /\ \E job_ok \in BOOLEAN :
       LET file_updates == rows_for(successfully_uploaded, vpn_data)
           staged == insert_via_jsonl(file_updates, {}, TRUE)
           r == update_files(file_updates, bq_table, job_ok)
       IN  /\ ~job_ok => (~staged.raised /\ failures_left > 0)
           /\ bq_table' = r.table
           /\ failures_left' = IF job_ok THEN failures_left
                                         ELSE failures_left - 1
           /\ env_failed' = (env_failed \/ ~job_ok)
  /\ pc' = After("update", to_delete, to_add, to_update)
  /\ phases' = Append(phases, "update_merge")
  /\ UNCHANGED <<vpn_data, gcs_bucket, log_table, config, calls,
                 delete_success, run_ctx,
                 error_occurred, error_message, successfully_uploaded,
                 result, verify_report, uploaded_ok>>

\* sync.py 463-481: the divergences the verifier lists.
inconsistencies_of_m(vpn_paths, bq_paths, gcs_paths) ==
     (IF bq_paths \ gcs_paths # {} THEN {"bq_not_in_gcs"} ELSE {})
  \cup (IF bq_paths \ gcs_paths # {} THEN {"gcs_not_in_bq"} ELSE {})
  \cup (IF vpn_paths \ bq_paths # {} THEN {"vpn_not_in_bq"} ELSE {})
  \cup (IF vpn_paths \ gcs_paths # {} THEN {"vpn_not_in_gcs"} ELSE {})
inconsistencies_of(vpn_paths, bq_paths, gcs_paths) ==
     (IF bq_paths \ gcs_paths # {} THEN {"bq_not_in_gcs"} ELSE {})
  \cup (IF gcs_paths \ bq_paths # {} THEN {"gcs_not_in_bq"} ELSE {})
  \cup (IF vpn_paths \ bq_paths # {} THEN {"vpn_not_in_bq"} ELSE {})
  \cup (IF vpn_paths \ gcs_paths # {} THEN {"vpn_not_in_gcs"} ELSE {})

\* sync.py 446-495: _verify_final_consistency; a failed re-read is caught.
Verify_m ==
  /\ pc = "verify"
  /\ \E read_ok \in BOOLEAN :
       /\ ~read_ok => failures_left > 0
       /\ failures_left' = IF read_ok THEN failures_left
                                      ELSE failures_left - 1
       /\ env_failed' = (env_failed \/ ~read_ok)
       /\ verify_report' =
            IF read_ok
              THEN inconsistencies_of(DOMAIN vpn_data,
                                      {r[1] : r \in bq_table}, gcs_bucket)
              ELSE {"error"}
       /\ IF read_ok THEN /\ pc' = "log"
                          /\ UNCHANGED <<error_occurred, error_message>>
                     ELSE Caught
  /\ phases' = Append(phases, "verify")
  /\ UNCHANGED <<stores, log_table, config, calls, delete_success, run_ctx,
                 successfully_uploaded, result, uploaded_ok>>
Verify ==
  /\ pc = "verify"
  /\ \E read_ok \in BOOLEAN :
       /\ ~read_ok => failures_left > 0
       /\ failures_left' = IF read_ok THEN failures_left
                                      ELSE failures_left - 1
       /\ env_failed' = (env_failed \/ ~read_ok)
       /\ verify_report' =
            IF read_ok
              THEN inconsistencies_of(DOMAIN vpn_data,
                                      {r[1] : r \in bq_table}, gcs_bucket)
              ELSE {"error"}
  /\ pc' = "log"
  /\ phases' = Append(phases, "verify")
  /\ UNCHANGED <<stores, log_table, config, calls,
                 delete_success, run_ctx, error_occurred,
                 error_message, successfully_uploaded, result, uploaded_ok>>

\* bigquery_operations.py 378-388: the parameters of log_sync after self.
log_sync_parameters ==
  <<"dataset_id", "log_table_id", "sync_date", "files_added",
    "files_deleted", "files_updated", "success", "error_message">>

\* sync.py 257-262: the arguments of the call, the positional ones in
\* order and the keywords.
log_sync_positional_m ==
  <<"self.dataset_id", "self.log_table_id", "sync_start_time",
    "files_added", "files_deleted", "files_updated">>
log_sync_positional ==
  <<"self.dataset_id", "self.log_table_id", "sync_start_time",
    "datetime.now()", "files_added", "files_deleted", "files_updated">>

log_sync_keywords == {"success", "error_message"}

\* The call binds its arguments to the parameters: TypeError when there
\* are too many positional arguments or when a keyword names a parameter
\* that a positional argument has taken.
call_raises(parameters, positional, keywords) ==
  \/ Len(positional) > Len(parameters)
  \/ \E i \in 1..Len(positional) : parameters[i] \in keywords
  \/ \E kw \in keywords : kw \notin Range(parameters)

\* The value a parameter receives: its keyword's, or that of the
\* positional argument at its place.
bound_to(parameters, positional, keywords, values, name) ==
  IF name \in keywords THEN values[name]
  ELSE values[positional[CHOOSE i \in 1..Len(positional) :
                            parameters[i] = name]]

\* bigquery_operations.py 378-434: log_sync appends the row
\* (WRITE_APPEND), or raises, either at the call or in the load job.
log_sync(table, positional, keywords, values, job_ok) ==
  IF call_raises(log_sync_parameters, positional, keywords) \/ ~job_ok
    THEN [table |-> table, raised |-> TRUE]
    ELSE LET arg(name) == bound_to(log_sync_parameters, positional,
                                   keywords, values, name)
         IN  [table |-> Append(table,
                 Outcome(arg("success"), arg("files_added"),
                         arg("files_deleted"), arg("files_updated"),
                         arg("error_message"))),
              raised |-> FALSE]

\* sync.py 256-262: the values of the arguments handed to log_sync.
log_sync_values ==
  [e \in Range(log_sync_positional) \cup log_sync_keywords |->
     CASE e = "files_added"   -> files_added
       [] e = "files_deleted" -> files_deleted
       [] e = "files_updated" -> files_updated
       [] e = "success"       -> ~error_occurred
       [] e = "error_message" -> error_message
       [] OTHER               -> e]

\* sync.py 263-272: what sync returns once the finally block is over,
\* `earlier` being the value of a `return` inside the try block, if any;
\* an exception of log_sync has been caught and is not looked at.
sync_returns_m(earlier, log_raised) ==
  IF log_raised THEN <<Outcome(FALSE, 0, 0, 0, "exception")>>
  ELSE IF earlier # <<>> THEN earlier
  ELSE <<Outcome(~error_occurred, files_added, files_deleted,
                 files_updated, error_message)>>
sync_returns(earlier, log_raised) ==
  IF earlier # <<>> THEN earlier
  ELSE <<Outcome(~error_occurred, files_added, files_deleted,
                 files_updated, error_message)>>

\* sync.py 252-272: the `finally` block calls log_sync (whatever it raises
\* is caught), then sync returns: the value of an earlier `return` if
\* there was one, the dict of line 266 otherwise.
LogSync ==
  /\ pc = "log"
  /\ \E job_ok \in BOOLEAN :
       LET r == log_sync(log_table, log_sync_positional, log_sync_keywords,
                         log_sync_values, job_ok)
       IN  /\ ~job_ok =>
                /\ ~call_raises(log_sync_parameters, log_sync_positional,
                                log_sync_keywords)
                /\ failures_left > 0
           /\ failures_left' = IF job_ok THEN failures_left
                                         ELSE failures_left - 1
           /\ log_table' = r.table
           /\ result' = sync_returns(result, r.raised)
  /\ pc' = "done"
  /\ phases' = Append(phases, "log")
  /\ UNCHANGED <<stores, config, calls,
                 delete_success, run_ctx, error_occurred,
                 error_message, successfully_uploaded, env_failed,
                 verify_report, uploaded_ok>>

Faults == {"none", "scan", "bq_read", "gcs_list"}

Next ==
  \/ \E dry \in BOOLEAN, fault \in Faults : StartSync(dry, fault)
  \/ DeleteBq
  \/ DeleteGcs
  \/ AddUpload
  \/ AddInsert
  \/ UpdateUpload
  \/ UpdateMerge
  \/ Verify
  \/ LogSync

Spec == Init /\ [][Next]_vars

\* Dry runs only, under every configured tolerance: the classifier alone.
InitDry ==
  /\ InitStores
  /\ SYNC_USE_JSONL_THRESHOLD = 1
  /\ SYNC_TIME_TOLERANCE_SECONDS \in 0..MaxTolerance
  /\ failures_left = 0

NextDry ==
  \/ StartSync(TRUE, "none")
  \/ LogSync

DrySpec == InitDry /\ [][NextDry]_vars

TypeOK ==
  /\ vpn_data \in Snapshots
  /\ bq_table \subseteq Keys \X Times
  /\ gcs_bucket \subseteq Keys
  /\ failures_left \in 0..MaxFailures
  /\ Len(result) <= 1

\* Real runs one after another.  The environment fails at most MaxFailures
\* times in all, so every operation that failed succeeds in a later run;
\* a run that has started goes on to its end, and the next run starts.
NextReal ==
  \/ \E fault \in Faults : StartSync(FALSE, fault)
  \/ DeleteBq
  \/ DeleteGcs
  \/ AddUpload
  \/ AddInsert
  \/ UpdateUpload
  \/ UpdateMerge
  \/ Verify
  \/ LogSync

FairSpec == Init /\ [][NextReal]_vars /\ WF_vars(NextReal)

\* ---------------------------------------------------------- interrupts
\* A KeyboardInterrupt raised while a phase or the verifier is running.
\* It is not an Exception: the `except Exception` of sync.py 241 does not
\* match, error_occurred stays as it is, and the finally block runs with
\* the exception in flight.
Interrupt ==
  /\ pc \in {"delete_bq", "delete_gcs", "add_upload", "add_insert",
             "update_upload", "update_merge", "verify"}
  /\ pc' = "log_interrupted"
  /\ phases' = Append(phases, "interrupt")
  /\ UNCHANGED <<stores, log_table, config, calls, delete_success, run_ctx,
                 error_occurred, error_message, successfully_uploaded,
                 result, failures_left, env_failed, verify_report,
                 uploaded_ok>>

\* sync.py 252-264, then main.py 108-110: the finally block calls
\* log_sync; the interrupt then leaves sync, which returns nothing, and
\* main exits.
LogSyncInterrupted ==
  /\ pc = "log_interrupted"
  /\ \E job_ok \in BOOLEAN :
       LET r == log_sync(log_table, log_sync_positional, log_sync_keywords,
                         log_sync_values, job_ok)
       IN  /\ ~job_ok =>
                /\ ~call_raises(log_sync_parameters, log_sync_positional,
                                log_sync_keywords)
                /\ failures_left > 0
           /\ failures_left' = IF job_ok THEN failures_left
                                         ELSE failures_left - 1
           /\ log_table' = r.table
  /\ result' = <<>>
  /\ pc' = "done"
  /\ phases' = Append(phases, "log")
  /\ UNCHANGED <<stores, config, calls,
                 delete_success, run_ctx, error_occurred,
                 error_message, successfully_uploaded, env_failed,
                 verify_report, uploaded_ok>>

\* Real runs that the user may interrupt.
NextInterruptible ==
  \/ NextReal
  \/ Interrupt
  \/ LogSyncInterrupted

InterruptSpec == Init /\ [][NextInterruptible]_vars

\* ------------------------------------- upload_files / delete_files by step
\* Everything a run of sync holds, left alone by the steps of a call.
run_vars == <<stores, log_table, config, pc, run_ctx, error_occurred,
              error_message, successfully_uploaded, result, failures_left,
              env_failed, phases, verify_report, uploaded_ok,
              delete_success>>

\* A fate whose attempts all succeed.
NoFailure ==
  [exists |-> TRUE, attempts |-> [i \in 1..UPLOAD_RETRY_ATTEMPTS |-> "ok"]]

\* gcs_operations.py 108-115 / 171-175: the state at the top of the loop.
EnterCall(op, order, fate, kind, bucket) ==
  [NoCall EXCEPT !.op = op, !.file_list = order, !.fate = fate,
                 !.kind = kind, !.at = "loop",
                 !.bucket = bucket, !.bucket_before = bucket]

\* A call of upload_files or of delete_files over any batch, in any
\* order, with any fate of each file, on any bucket.
InitCall ==
  /\ vpn_data = <<>> /\ bq_table = {} /\ gcs_bucket = {}
  /\ pc = "idle" /\ dry_run = FALSE
  /\ RunLocals
  /\ SYNC_USE_JSONL_THRESHOLD = 1
  /\ SYNC_TIME_TOLERANCE_SECONDS = 0
  /\ failures_left = 0
  /\ ts_call = NoTimestamps
  /\ \E batch \in SUBSET Keys : \E order \in Orders(batch) :
     \E bucket \in SUBSET Keys :
       \/ \E fate \in [batch -> Fates] :
            gcs_call = EnterCall("upload_files", order, fate,
                                 [k \in batch |-> "ok"], bucket)
       \/ \E kind \in [batch -> AttemptOutcomes] :
            gcs_call = EnterCall("delete_files", order,
                                 [k \in batch |-> NoFailure], kind, bucket)

\* The entry the loop is at.
current == gcs_call.file_list[gcs_call.idx]

\* gcs_operations.py 120-124 / 178-181: the single-file call returned, the
\* counters are updated and the loop goes to the next entry.
Counted(call, k, ok) ==
  [call EXCEPT !.successes = IF ok THEN @ + 1 ELSE @,
               !.failures = IF ok THEN @ ELSE @ + 1,
               !.successful_paths =
                  IF ok /\ call.op = "upload_files" THEN Append(@, k) ELSE @,
               !.verdict[k] = IF ok THEN "ok" ELSE "failed",
               !.idx = @ + 1, !.at = "loop", !.attempt = 0]

\* gcs_operations.py 76: `except GoogleCloudError` is the retried error.
retried_error_m(outcome) == outcome # "ok"
retried_error(outcome) == outcome = "gce"

\* gcs_operations.py 77: `if attempt < retry_attempts`, sleep and go on.
may_retry_m(attempt) == TRUE
may_retry(attempt) == attempt < UPLOAD_RETRY_ATTEMPTS

\* gcs_operations.py 116-124 with 61-68: the loop calls upload_file, which
\* returns False at once when the local file does not exist.
UploadFileEnter ==
  /\ gcs_call.op = "upload_files" /\ gcs_call.at = "loop"
  /\ gcs_call.idx <= Len(gcs_call.file_list)
  /\ gcs_call' =
       IF ~gcs_call.fate[current].exists
         THEN Counted(gcs_call, current, FALSE)
         ELSE [gcs_call EXCEPT !.at = "try", !.attempt = 1]
  /\ UNCHANGED <<run_vars, ts_call>>

\* gcs_operations.py 70-87: one attempt of blob.upload_from_filename.
UploadAttempt ==
  /\ gcs_call.at = "try"
  /\ LET k == current
         outcome == gcs_call.fate[k].attempts[gcs_call.attempt]
         made == [gcs_call EXCEPT !.attempts_made[k] = @ + 1]
     IN  gcs_call' =
           IF outcome = "ok"
             THEN Counted([made EXCEPT !.bucket = @ \cup {k}], k, TRUE)
           ELSE IF retried_error(outcome)
             THEN IF may_retry(gcs_call.attempt)
                    THEN [made EXCEPT !.at = "sleep"]
                    ELSE Counted(made, k, FALSE)
           ELSE Counted(made, k, FALSE)
  /\ UNCHANGED <<run_vars, ts_call>>

\* gcs_operations.py 82 and 70, 89: time.sleep(retry_delay), then the next
\* attempt of range(1, retry_attempts + 1), `return False` when the range
\* is exhausted.
Sleep ==
  /\ gcs_call.at = "sleep"
  /\ LET slept == [gcs_call EXCEPT !.sleeps[current] = @ + 1]
     IN  gcs_call' =
           IF gcs_call.attempt < UPLOAD_RETRY_ATTEMPTS
             THEN [slept EXCEPT !.at = "try", !.attempt = @ + 1]
             ELSE Counted(slept, current, FALSE)
  /\ UNCHANGED <<run_vars, ts_call>>

\* gcs_operations.py 177-181: one call of delete_file, its result
\* counted; an exception it does not catch leaves delete_files.
DeleteFile ==
  /\ gcs_call.op = "delete_files" /\ gcs_call.at = "loop"
  /\ gcs_call.idx <= Len(gcs_call.file_list)
  /\ LET k == current
         r == delete_file(gcs_call.bucket, k, gcs_call.kind[k])
         made == [gcs_call EXCEPT !.attempts_made[k] = @ + 1,
                                  !.bucket = r.bucket]
     IN  gcs_call' =
           IF r.returned = "True" THEN Counted(made, k, TRUE)
           ELSE IF r.returned = "False" THEN Counted(made, k, FALSE)
           ELSE [made EXCEPT !.at = "raised"]
  /\ UNCHANGED <<run_vars, ts_call>>

\* gcs_operations.py 130-131 / 188-189: the loop is over, the counts are
\* returned.
ReturnCounts ==
  /\ gcs_call.at = "loop"
  /\ gcs_call.idx > Len(gcs_call.file_list)
  /\ gcs_call' = [gcs_call EXCEPT !.at = "returned"]
  /\ UNCHANGED <<run_vars, ts_call>>

NextCall ==
  \/ UploadFileEnter
  \/ UploadAttempt
  \/ Sleep
  \/ DeleteFile
  \/ ReturnCounts

\* A call that has started goes on: nothing in the loops waits for
\* anything but the end of time.sleep.
CallSpec == InitCall /\ [][NextCall]_vars /\ WF_vars(NextCall)

\* ------------------------------------------------- normalize_timestamp
\* The zone offsets of the inputs, in the unit of the wall-clock readings
\* (0 is "Z").
Offsets == {0, 2}
Walls == 0..MaxWall

\* What normalize_timestamp is handed: an ISO string, a datetime or a
\* pandas Timestamp (a subclass of datetime), carrying a wall-clock
\* reading and either no zone (aware = FALSE, utcoffset 0) or an offset.
TimestampInputs ==
  {v \in [kind : {"str", "datetime", "Timestamp"}, wall : Walls,
          aware : BOOLEAN, utcoffset : Offsets] :
     ~v.aware => v.utcoffset = 0}

\* utils.py 20-23: a datetime (or Timestamp) is taken as it is, anything
\* else is parsed by pd.Timestamp(value).to_pydatetime().
as_datetime(value) ==
  IF value.kind \in {"datetime", "Timestamp"}
    THEN value
    ELSE [value EXCEPT !.kind = "datetime"]

\* normalize_timestamp converting through the local zone before it drops
\* the zone (dt.astimezone(utc)): a naive value is read as local time.
normalize_timestamp_m(value) ==
  LET dt == as_datetime(value)
      zone == IF dt.aware THEN dt.utcoffset
              ELSE CHOOSE o \in Offsets : \A q \in Offsets : q <= o
  IN  [dt EXCEPT !.wall = @ - zone, !.aware = FALSE, !.utcoffset = 0]

\* utils.py 10-28: dt.replace(tzinfo=None) drops the zone and keeps the
\* wall-clock reading.
normalize_timestamp(value) ==
  LET dt == as_datetime(value)
  IN  IF dt.aware
        THEN [dt EXCEPT !.aware = FALSE, !.utcoffset = 0]
        ELSE dt

\* Two values are handed to normalize_timestamp, as the source timestamp
\* and the metadata timestamp of one key are (sync.py 101, 113).
InitNormalize ==
  /\ vpn_data = <<>> /\ bq_table = {} /\ gcs_bucket = {}
  /\ pc = "idle" /\ dry_run = FALSE
  /\ RunLocals
  /\ SYNC_USE_JSONL_THRESHOLD = 1
  /\ SYNC_TIME_TOLERANCE_SECONDS = 0
  /\ failures_left = 0
  /\ gcs_call = NoCall
  /\ \E x, y \in TimestampInputs :
       ts_call = [input |-> <<x, y>>, value |-> <<x, y>>,
                  applied |-> <<0, 0>>]

\* One call of normalize_timestamp on what the i-th value is now.
NormalizeTimestamp(i) ==
  /\ ts_call.applied[i] < MaxApplications
  /\ ts_call' = [ts_call EXCEPT
                   !.value[i] = normalize_timestamp(@),
                   !.applied[i] = @ + 1]
  /\ UNCHANGED <<run_vars, gcs_call>>

NextNormalize == \E i \in {1, 2} : NormalizeTimestamp(i)

NormalizeSpec == InitNormalize /\ [][NextNormalize]_vars

\* ------------------------------------------------------------ vocabulary
vpn_paths == DOMAIN vpn_data
bq_paths == {r[1] : r \in bq_table}
bq_data == bq_data_of(bq_table)

\* The classifier has just run and no phase has touched the stores yet:
\* bq_table and gcs_bucket are the snapshots M and B it read.
JustClassified == classified /\ phases = <<"classify">>

orphan_blobs == (gcs_bucket \ bq_paths) \ vpn_paths
blob_missing_for_tracked == (bq_paths \ gcs_bucket) \cap vpn_paths

Abs(x) == IF x < 0 THEN -x ELSE x

\* The three stores agree.
Converged ==
  /\ bq_table = Rows(vpn_data)
  /\ gcs_bucket = vpn_paths

\* ----------------------------------------------------------------- claims

\* C1: the action sets sync computes put every key of keys(S) \cup keys(M)
\* in exactly one of to_add, to_delete, to_update, untouched (in none): the
\* three sets are pairwise disjoint, in particular to_delete shares no key
\* with to_add or with to_update.
C1_ActionSetsDisjoint ==
  classified =>
    /\ \A k \in vpn_paths \cup bq_paths \cup Keys :
         Cardinality({s \in {"add", "delete", "update"} :
            \/ s = "add" /\ k \in to_add
            \/ s = "delete" /\ k \in to_delete
            \/ s = "update" /\ k \in to_update}) <= 1
    /\ to_delete \cap to_add = {}
    /\ to_delete \cap to_update = {}

\* A key to delete next to a key re-uploaded only because its blob is
\* missing (its timestamps agree).
C1_Witness ==
  /\ JustClassified
  /\ to_delete # {}
  /\ \E k \in to_update : k \notin gcs_bucket /\ bq_data[k] = vpn_data[k]

\* C2: to_add is exactly keys(S) - keys(M), whatever B holds, and every
\* key of keys(M) - keys(S) is in to_delete.
C2_AddAndDelete ==
  JustClassified =>
    /\ to_add = vpn_paths \ bq_paths
    /\ (bq_paths \ vpn_paths) \subseteq to_delete

\* Scenario 4: S = {1}, M = {2}, B = {2}.
C2_Witness ==
  /\ JustClassified
  /\ vpn_paths = {1} /\ bq_paths = {2} /\ gcs_bucket = {2}
  /\ to_add = {1} /\ to_delete = {2} /\ to_update = {}

\* C3: when the blob store holds orphan blobs the classifier completes
\* without error and to_delete = (keys(M) - keys(S)) \cup orphan_blobs.
C3_OrphansDeleted ==
  (JustClassified /\ orphan_blobs # {}) =>
    /\ ~error_occurred
    /\ orphan_blobs \subseteq to_delete
    /\ to_delete = (bq_paths \ vpn_paths) \cup orphan_blobs

\* C4: every key tracked by the metadata table and present at the source
\* whose blob is missing is in to_update, even with equal timestamps.
C4_MissingBlobUpdated ==
  JustClassified => blob_missing_for_tracked \subseteq to_update

\* C5 as stated: for a common key whose blob is present, membership in
\* to_update is |S[k] - M[k]| >= SYNC_TIME_TOLERANCE_SECONDS.
C5_ToleranceDecides ==
  JustClassified =>
    \A k \in (vpn_paths \cap bq_paths) \cap gcs_bucket :
       k \in to_update <=>
         Abs(vpn_data[k] - bq_data[k]) >= SYNC_TIME_TOLERANCE_SECONDS

\* C5 (amended): for a common key whose blob is present, membership in
\* to_update is S[k] # M[k], for every value of the configured tolerance.
C5_ExactMismatchDecides ==
  JustClassified =>
    \A k \in (vpn_paths \cap bq_paths) \cap gcs_bucket :
       k \in to_update <=> vpn_data[k] # bq_data[k]

\* A stale common key under a non-zero tolerance, next to a common key
\* that is up to date.
C5_Witness ==
  /\ JustClassified
  /\ SYNC_TIME_TOLERANCE_SECONDS > 0
  /\ \E k \in (vpn_paths \cap bq_paths) \cap gcs_bucket :
       vpn_data[k] # bq_data[k] /\ k \in to_update
  /\ \E k \in (vpn_paths \cap bq_paths) \cap gcs_bucket :
       vpn_data[k] = bq_data[k] /\ k \notin to_update

\* The timestamps the metadata table holds for a key.
StampsOf(table, k) == {r[2] : r \in {q \in table : q[1] = k}}

\* A step of Add or Update changes the metadata of uploaded keys only.
MetadataWriteFollowsUpload ==
  pc \in {"add_insert", "update_merge"} =>
    \A k \in Keys :
       StampsOf(bq_table', k) # StampsOf(bq_table, k) => k \in uploaded_ok

\* C6: Add and Update write the metadata row of a key only after the
\* upload of that key succeeded in this run.
C6_UploadBeforeMetadata == [][MetadataWriteFollowsUpload]_vars

\* Add has inserted the key that was uploaded and left out the key whose
\* upload failed.
C6_Witness ==
  /\ "add_insert" \in Range(phases)
  /\ \E k \in to_add : k \in uploaded_ok /\ <<k, vpn_data[k]>> \in bq_table
  /\ \E k \in to_add : k \notin uploaded_ok /\ k \notin bq_paths

\* A step taken over an empty source leaves both stores alone and, when
\* it ends the run, returns the failed outcome.
EmptySourceStep ==
  vpn_paths = {} =>
    /\ bq_table' = bq_table
    /\ gcs_bucket' = gcs_bucket
    /\ pc' = "done" =>
         /\ result'[1].success = FALSE
         /\ result'[1].files_added = 0
         /\ result'[1].files_deleted = 0
         /\ result'[1].files_updated = 0

\* C7: with an empty source snapshot no step of the run changes the
\* metadata table or the blob store, and the run returns success = false
\* with all counters 0.
C7_EmptySourceAborts == [][EmptySourceStep]_vars

\* The scan succeeded on an empty tree while both stores hold entries.
C7_Witness ==
  /\ pc = "done"
  /\ vpn_paths = {}
  /\ ~env_failed
  /\ bq_table # {} /\ gcs_bucket # {}
  /\ result = <<Outcome(FALSE, 0, 0, 0, "No files found")>>

\* The place of each step in the order delete, add, update, verify, log.
StepRank(step) ==
  CASE step = "classify"      -> 0
    [] step = "delete_bq"     -> 1
    [] step = "delete_gcs"    -> 2
    [] step = "add_upload"    -> 3
    [] step = "add_insert"    -> 4
    [] step = "update_upload" -> 5
    [] step = "update_merge"  -> 6
    [] step = "verify"        -> 7
    [] step = "log"           -> 8

\* C8: within a run the steps execute in the order delete, add, update,
\* verify, log: no step runs before a step of an earlier phase.
C8_PhaseOrder ==
  \A i, j \in 1..Len(phases) :
     i < j => StepRank(phases[i]) < StepRank(phases[j])

\* A run that deleted, then added, then verified and logged.
C8_Witness ==
  /\ pc = "done"
  /\ phases = <<"classify", "delete_bq", "delete_gcs",
                "add_upload", "add_insert", "verify", "log">>

\* C9: after a run in which no file or metadata operation failed, the
\* metadata table holds exactly the source snapshot and the blob store
\* holds exactly the source keys.
C9_CleanRunConverges ==
  (pc = "done" /\ ~dry_run /\ vpn_paths # {} /\ ~env_failed) => Converged

\* C10: with a non-empty source, runs executed one after another whose
\* failures are finitely many eventually reach agreement of the stores.
C10_EventuallyConverged == <>(vpn_paths = {} \/ Converged)

\* The last step the run has taken.
LastStep == IF phases = <<>> THEN "none" ELSE phases[Len(phases)]

\* Delete has just returned or raised with the blob of k still in the
\* blob store: k left the source, its metadata row is gone, and its blob
\* delete failed.
BlobDeleteFailed(k) ==
  /\ LastStep = "delete_gcs"
  /\ k \in to_delete
  /\ k \notin vpn_paths
  /\ k \notin bq_paths
  /\ k \in gcs_bucket

\* C11: when the blob delete of a key fails after its metadata row was
\* deleted, the run does not abort, and with runs repeated and finitely
\* many failures a later run removes the blob from the blob store.
C11_FailedBlobDeleteHeals ==
  \A k \in Keys :
     /\ [](BlobDeleteFailed(k) => ~error_occurred)
     /\ (BlobDeleteFailed(k) ~> k \notin gcs_bucket)

\* A phase of this run has run and reported a failure: a transfer that
\* failed or a metadata write that was not applied.
DeleteReportedFailure ==
  \/ "delete_bq" \in Range(phases) /\ to_delete \cap bq_paths # {}
  \/ "delete_gcs" \in Range(phases) /\ to_delete \cap gcs_bucket # {}

AddReportedFailure ==
  \/ "add_upload" \in Range(phases) /\ to_add \ uploaded_ok # {}
  \/ /\ "add_insert" \in Range(phases)
     /\ ~(rows_for(to_add \cap uploaded_ok, vpn_data) \subseteq bq_table)

UpdateReportedFailure ==
  \/ "update_upload" \in Range(phases) /\ to_update \ uploaded_ok # {}
  \/ /\ "update_merge" \in Range(phases)
     /\ ~(rows_for(to_update \cap uploaded_ok, vpn_data) \subseteq bq_table)

\* C12: when Delete, Add or Update has reported a failed transfer or a
\* failed metadata write, the outcome returned by sync has success = false.
C12_FailureDowngradesSuccess ==
  (pc = "done" /\ ~dry_run
     /\ (DeleteReportedFailure \/ AddReportedFailure \/ UpdateReportedFailure))
    => result[1].success = FALSE

\* The keys each phase of this run has applied: uploaded and written to
\* the metadata table, or removed from both stores.
AppliedAdds ==
  {k \in to_add : k \in uploaded_ok /\ <<k, vpn_data[k]>> \in bq_table}

AppliedDeletes ==
  {k \in to_delete : k \notin bq_paths /\ k \notin gcs_bucket}

AppliedUpdates ==
  {k \in to_update : k \in uploaded_ok /\ <<k, vpn_data[k]>> \in bq_table}

\* C13: the counters of the outcome a real run returns count what was
\* applied: files_added the keys uploaded and inserted, files_deleted the
\* keys deleted, files_updated the keys uploaded and merged.
C13_CountersCountApplied ==
  (pc = "done" /\ ~dry_run /\ classified /\ ~error_occurred) =>
    /\ result[1].files_added = Cardinality(AppliedAdds)
    /\ result[1].files_deleted = Cardinality(AppliedDeletes)
    /\ result[1].files_updated = Cardinality(AppliedUpdates)

\* The run has entered the phase.
Ran(step) == step \in Range(phases)

\* C14: whatever fails inside Delete, Add still runs when to_add is not
\* empty; whatever fails inside Add, Update still runs when to_update is
\* not empty; and a run that entered a phase runs the verifier and the
\* logger.
C14_LaterPhasesRun ==
  (pc = "done" /\ ~dry_run) =>
    /\ (Ran("delete_bq") /\ to_add # {}) => Ran("add_upload")
    /\ (Ran("add_upload") /\ to_update # {}) => Ran("update_upload")
    /\ (Ran("delete_bq") \/ Ran("add_upload") \/ Ran("update_upload"))
         => (Ran("verify") /\ Ran("log"))

\* The metadata delete of this run raised: rows of to_delete are left.
MetadataDeleteFailed == Ran("delete_bq") /\ to_delete \cap bq_paths # {}

\* C15: a failure of the metadata-table delete does not abort the blob
\* delete: the step after it is the blob-store delete over to_delete, and
\* when nothing else fails every blob of to_delete is removed.
C15_BlobDeleteAfterMetadataFailure ==
  /\ LastStep = "delete_bq" => pc = "delete_gcs"
  /\ (LastStep = "delete_gcs" /\ MetadataDeleteFailed
        /\ failures_left = MaxFailures - 1)
       => to_delete \cap gcs_bucket = {}

\* The metadata delete failed and the blob delete went through.
C15_Witness ==
  /\ LastStep = "delete_gcs"
  /\ MetadataDeleteFailed
  /\ ~error_occurred
  /\ to_delete # {}
  /\ to_delete \cap gcs_bucket = {}

\* C16: when no file of to_add uploads successfully, Add attempts no
\* metadata insert and the metadata table holds no row of to_add.
C16_NoUploadNoInsert ==
  (Ran("add_upload") /\ to_add \cap uploaded_ok = {}) =>
    /\ ~Ran("add_insert")
    /\ to_add \cap bq_paths = {}

\* Add ran, no upload of to_add succeeded, and the run went on to the
\* verifier.
C16_Witness ==
  /\ Ran("add_upload") /\ Ran("verify")
  /\ to_add # {}
  /\ uploaded_ok = {}
  /\ AddReportedFailure
  /\ to_add \cap gcs_bucket = {}

\* The merge step of Update writes S[k] for the uploaded keys of
\* to_update and leaves the rows of the other keys of to_update alone.
MergeApplied ==
  pc = "update_merge" =>
    \A k \in to_update :
       IF k \in successfully_uploaded
         THEN StampsOf(bq_table', k) = {vpn_data[k]}
         ELSE StampsOf(bq_table', k) = StampsOf(bq_table, k)

\* C17: Update leaves the metadata timestamp of every key of to_update
\* whose upload succeeded equal to S[k], and the row of every key whose
\* upload failed unchanged.
C17_UpdateMerges == [][MergeApplied]_vars

\* The call followed step by step is over, by a return or by a raise.
CallDone == gcs_call.at \in {"returned", "raised"}

\* upload_file or delete_file has returned for k.
Finished(k) == gcs_call.verdict[k] # "none"

\* At most the configured number of attempts; success is returned at the
\* first attempt that succeeds; a wait follows a failed attempt and is
\* followed by another attempt.
UploadFileBounded ==
  \A k \in Keys :
     /\ gcs_call.attempts_made[k] <= UPLOAD_RETRY_ATTEMPTS
     /\ (gcs_call.op = "upload_files" /\ gcs_call.verdict[k] = "ok") =>
          /\ gcs_call.fate[k].attempts[gcs_call.attempts_made[k]] = "ok"
          /\ \A j \in 1..(gcs_call.attempts_made[k] - 1) :
                gcs_call.fate[k].attempts[j] # "ok"
     /\ gcs_call.sleeps[k] <= gcs_call.attempts_made[k]
     /\ (Finished(k) /\ gcs_call.attempts_made[k] > 0) =>
          gcs_call.sleeps[k] = gcs_call.attempts_made[k] - 1
     /\ (Finished(k) /\ gcs_call.attempts_made[k] = 0) =>
          gcs_call.sleeps[k] = 0
     /\ gcs_call.at = "sleep" => gcs_call.attempt < UPLOAD_RETRY_ATTEMPTS

\* C18: upload_file makes at most UPLOAD_RETRY_ATTEMPTS attempts for a
\* file, returns success at the first attempt that succeeds, waits only
\* between two attempts, and every call of upload_files or delete_files
\* comes to an end whatever fails.
C18_BoundedRetryTerminates == []UploadFileBounded /\ <>CallDone

\* upload_files has returned after one file used every attempt and failed
\* and another succeeded at its second attempt, after one wait.
C18_Witness ==
  /\ gcs_call.op = "upload_files" /\ gcs_call.at = "returned"
  /\ \E k \in Keys :
       /\ gcs_call.verdict[k] = "failed"
       /\ gcs_call.attempts_made[k] = UPLOAD_RETRY_ATTEMPTS
  /\ \E k \in Keys :
       /\ gcs_call.verdict[k] = "ok"
       /\ gcs_call.attempts_made[k] = 2 /\ gcs_call.sleeps[k] = 1

\* C19: upload_files and delete_files process every entry of the batch
\* whatever fails and return counts with successes + failures = size of
\* the batch, the success list of upload_files holding exactly the keys
\* whose upload succeeded.
C19_BatchAccounting ==
  CallDone =>
    /\ gcs_call.at = "returned"
    /\ \A k \in Range(gcs_call.file_list) : Finished(k)
    /\ gcs_call.successes + gcs_call.failures = Len(gcs_call.file_list)
    /\ gcs_call.op = "upload_files" =>
         Range(gcs_call.successful_paths) =
           {k \in Range(gcs_call.file_list) : upload_file(gcs_call.fate[k])}

\* C20 as stated: a single-file transfer is counted as failed only after
\* UPLOAD_RETRY_ATTEMPTS attempts have been made and have all failed.
C20_UniformRetry ==
  \A k \in Keys :
     gcs_call.verdict[k] = "failed" =>
       gcs_call.attempts_made[k] = UPLOAD_RETRY_ATTEMPTS

\* The attempts upload_file makes for a file: none when the local file is
\* missing, else up to the first attempt that does not fail with
\* GoogleCloudError, UPLOAD_RETRY_ATTEMPTS at most.
RECURSIVE AttemptsUntil(_, _)
AttemptsUntil(attempts, j) ==
  IF j >= UPLOAD_RETRY_ATTEMPTS \/ attempts[j] # "gce" THEN j
  ELSE AttemptsUntil(attempts, j + 1)

ExpectedAttempts(fate) ==
  IF ~fate.exists THEN 0 ELSE AttemptsUntil(fate.attempts, 1)

\* C20 (amended): only an upload attempt that fails with GoogleCloudError
\* is retried, up to UPLOAD_RETRY_ATTEMPTS attempts; an upload fails with
\* no attempt when the local file is missing and at once on any other
\* exception; a blob delete makes one attempt, is counted as failed on
\* GoogleCloudError, and any other exception leaves delete_files.
C20_RetryOnlyUploadCloudErrors ==
  \A k \in Keys :
     /\ (gcs_call.op = "upload_files" /\ Finished(k)) =>
          /\ gcs_call.attempts_made[k] = ExpectedAttempts(gcs_call.fate[k])
          /\ gcs_call.verdict[k] = "failed" <=>
               \/ ~gcs_call.fate[k].exists
               \/ gcs_call.fate[k].attempts[gcs_call.attempts_made[k]] # "ok"
     /\ (gcs_call.op = "delete_files" /\ Finished(k)) =>
          /\ gcs_call.attempts_made[k] = 1
          /\ gcs_call.verdict[k] = "failed" <=> gcs_call.kind[k] = "gce"
     /\ (gcs_call.op = "delete_files" /\ gcs_call.attempts_made[k] > 0
           /\ gcs_call.kind[k] = "exc") => gcs_call.at = "raised"

\* upload_files has returned with one file failed at its first attempt on
\* an exception that is not a GoogleCloudError, and another failed with no
\* attempt, its local file missing.
C20_Witness ==
  /\ gcs_call.op = "upload_files" /\ gcs_call.at = "returned"
  /\ \E k \in Keys :
       /\ gcs_call.verdict[k] = "failed"
       /\ gcs_call.attempts_made[k] = 1
       /\ gcs_call.fate[k].attempts[1] = "exc"
  /\ \E k \in Keys :
       /\ gcs_call.verdict[k] = "failed"
       /\ gcs_call.attempts_made[k] = 0
       /\ ~gcs_call.fate[k].exists

\* C21: every run reaches the Run Logger and, on every way it can end,
\* has appended exactly one outcome row to the log table when it returns.
C21_OneLogRowPerRun ==
  pc = "done" => (Ran("log") /\ Len(log_table) = 1)

\* sync.py 256-262: the outcome the finally block hands to the Run Logger.
HandedToLogger ==
  Outcome(log_sync_values["success"], log_sync_values["files_added"],
          log_sync_values["files_deleted"], log_sync_values["files_updated"],
          log_sync_values["error_message"])

\* C22: on every path the outcome handed to the Run Logger is the outcome
\* returned to the caller: same success flag, same counters; a run
\* aborted on an empty source is logged with success = false.
C22_LoggedIsReturned ==
  pc = "done" =>
    /\ HandedToLogger.success = result[1].success
    /\ HandedToLogger.files_added = result[1].files_added
    /\ HandedToLogger.files_deleted = result[1].files_deleted
    /\ HandedToLogger.files_updated = result[1].files_updated
    /\ vpn_paths = {} => HandedToLogger.success = FALSE

\* What the run has decided to return before it reaches the Run Logger.
DecidedOutcome ==
  IF vpn_paths = {} /\ ~error_occurred
    THEN Outcome(FALSE, 0, 0, 0, "No files found")
    ELSE Outcome(~error_occurred, files_added, files_deleted,
                 files_updated, error_message)

\* C23: a failure of the Run Logger never masks the sync result: sync
\* returns, and what it returns is the outcome the run had decided,
\* whether the log row was written or not.
C23_LogFailureDoesNotMask ==
  Ran("log") => (pc = "done" /\ result = <<DecidedOutcome>>)

\* The log write failed after a run that added a file, and sync returned
\* the successful outcome.
C23_Witness ==
  /\ Ran("log") /\ Ran("add_insert")
  /\ log_table = <<>>
  /\ result # <<>>
  /\ result[1].success /\ result[1].files_added > 0

\* The run was ended by the top-level `except Exception`, and what it
\* returns is the failed outcome with the message of the exception.
CaughtAndReturned ==
  /\ result # <<>>
  /\ result[1].success = FALSE
  /\ result[1].error_message # "None"
  /\ HandedToLogger = result[1]

\* C24: an exception raised while reading the snapshots, classifying or
\* executing is caught at the top level: sync returns success = false
\* with an error message, and that failed outcome is the row logged.
C24_ExceptionBecomesFailedOutcome ==
  (pc = "done" /\ error_occurred) =>
    /\ CaughtAndReturned
    /\ log_table = <<result[1]>>

\* C25: when a run is cancelled by a user interrupt in the middle of a
\* phase, the Run Logger is still reached and the outcome it is given has
\* success = false.
C25_InterruptLoggedAsFailure ==
  Ran("interrupt") =>
    /\ pc = "done" => Ran("log")
    /\ Ran("log") => HandedToLogger.success = FALSE

\* A step of a dry run issues no upload, delete, insert or merge.
DryRunStep ==
  dry_run' => (bq_table' = bq_table /\ gcs_bucket' = gcs_bucket)

\* What a dry run over a non-empty source reports.
DryRunReport ==
  <<Outcome(TRUE, Cardinality(to_add), Cardinality(to_delete),
            Cardinality(to_update), "None")>>

\* C26: a dry run over a non-empty source returns success with the
\* counters equal to the sizes of to_add, to_delete and to_update, and
\* leaves the metadata table and the blob store unchanged.
C26_DryRunReportsOnly ==
  /\ [][DryRunStep]_vars
  /\ []((pc = "done" /\ dry_run /\ vpn_paths # {})
          => (classified /\ result = DryRunReport))

\* The step of the verifier changes neither store nor anything the
\* outcome is made of, and hands over to the Run Logger.
VerifierStep ==
  pc = "verify" =>
    /\ UNCHANGED stores
    /\ UNCHANGED <<error_occurred, error_message, files_added,
                   files_deleted, files_updated>>
    /\ pc' = "log"

\* C27: the Post-Sync Verifier is diagnostic only: it never raises, a
\* failure of its reads does not change the run's outcome, and it never
\* modifies the metadata table or the blob store.
C27_VerifierDiagnosticOnly == [][VerifierStep]_vars

\* The reads of the verifier failed and the run returned success.
C27_Witness ==
  /\ pc = "done"
  /\ Ran("verify")
  /\ verify_report = {"error"}
  /\ result[1].success

\* The verifier of this run has re-read both stores.
Verified == Ran("verify") /\ verify_report # {"error"}

\* C28: the verifier reports metadata-without-blob iff keys(M') - B' is
\* not empty, blob-without-metadata iff B' - keys(M') is not empty,
\* source-without-metadata iff keys(S) - keys(M') is not empty and
\* source-without-blob iff keys(S) - B' is not empty, M' and B' being the
\* stores after execution; the check passes iff the four sets are empty.
C28_VerifierReportsDivergences ==
  Verified =>
    /\ "bq_not_in_gcs" \in verify_report <=> bq_paths \ gcs_bucket # {}
    /\ "gcs_not_in_bq" \in verify_report <=> gcs_bucket \ bq_paths # {}
    /\ "vpn_not_in_bq" \in verify_report <=> vpn_paths \ bq_paths # {}
    /\ "vpn_not_in_gcs" \in verify_report <=> vpn_paths \ gcs_bucket # {}
    /\ verify_report = {} <=>
         /\ bq_paths \ gcs_bucket = {} /\ gcs_bucket \ bq_paths = {}
         /\ vpn_paths \ bq_paths = {} /\ vpn_paths \ gcs_bucket = {}

\* Scenario 6: the metadata row of a key was deleted, its blob delete
\* failed, and the verifier reports blob-without-metadata only.
C28_Witness ==
  /\ Verified
  /\ \E k \in to_delete : k \notin bq_paths /\ k \in gcs_bucket
  /\ verify_report = {"gcs_not_in_bq"}

\* The classifier runs again over the snapshots of the run before; and a
\* step that classifies changes neither store.
Reclassified ==
  /\ (classified' /\ phases' = <<"classify">>) => UNCHANGED stores
  /\ (classified /\ pc = "done" /\ classified' /\ phases' = <<"classify">>)
       => /\ to_add' = to_add
          /\ to_delete' = to_delete
          /\ to_update' = to_update

BlobDeleteStep ==
  (/\ gcs_call.op = "delete_files" /\ gcs_call.at = "loop"
   /\ gcs_call.idx <= Len(gcs_call.file_list)
   /\ gcs_call.kind[current] = "ok")
  => /\ gcs_call'.verdict[current] = "ok"
     /\ gcs_call'.successes = gcs_call.successes + 1
     /\ gcs_call'.failures = gcs_call.failures
     /\ gcs_call'.bucket = gcs_call.bucket \ {current}
     /\ (current \notin gcs_call.bucket
           => gcs_call'.bucket = gcs_call.bucket)
     /\ delete_file(gcs_call'.bucket, current, "ok") =
          [bucket |-> gcs_call'.bucket, returned |-> "True"]

\* C30: the blob delete is idempotent: deleting a key that is absent from
\* the bucket counts as a success and leaves the bucket unchanged, so
\* that deleting a key twice leaves the bucket that deleting it once
\* leaves.
C30_BlobDeleteIdempotent == [][BlobDeleteStep]_vars

\* delete_files has returned after deleting a key that was absent from
\* the bucket and a key that was in it: both are counted as successes.
C30_Witness ==
  /\ gcs_call.op = "delete_files" /\ gcs_call.at = "returned"
  /\ \E k \in Range(gcs_call.file_list) :
        k \notin gcs_call.bucket_before /\ gcs_call.verdict[k] = "ok"
  /\ \E k \in Range(gcs_call.file_list) :
        k \in gcs_call.bucket_before /\ gcs_call.verdict[k] = "ok"
  /\ gcs_call.successes = 2 /\ gcs_call.failures = 0
  /\ gcs_call.bucket = gcs_call.bucket_before \ Range(gcs_call.file_list)

\* The rows _add_files is about to insert, written by each of the two
\* paths of insert_files into the table as it is, the load job working.
StagedInsert ==
  insert_via_jsonl(rows_for(successfully_uploaded, vpn_data), bq_table, FALSE)
DirectInsert ==
  insert_via_dataframe(rows_for(successfully_uploaded, vpn_data), bq_table,
                       TRUE)

\* C31: the staged bulk load and the direct insert are observably the
\* same: for the rows a run is about to insert and the table it inserts
\* them into, both paths succeed and leave the same table contents.
C31_InsertPathsAgree ==
  pc = "add_insert"
    => /\ ~StagedInsert.raised
       /\ ~DirectInsert.raised
       /\ StagedInsert.table = DirectInsert.table

\* The two inputs carry a zone and denote the same instant.
SameInstant(x, y) ==
  /\ x.aware /\ y.aware
  /\ x.wall - x.utcoffset = y.wall - y.utcoffset

\* Both values have been normalized.
BothNormalized == ts_call.applied[1] >= 1 /\ ts_call.applied[2] >= 1

\* C32: normalization is timezone-insensitive: two inputs that denote the
\* same instant with different offsets (10:00+02:00 and 08:00Z) normalize
\* to equal values.
C32_TimezoneInsensitive ==
  (BothNormalized /\ SameInstant(ts_call.input[1], ts_call.input[2]))
    => ts_call.value[1].wall = ts_call.value[2].wall

\* C33: normalization is idempotent: normalizing a normalized value gives
\* the normalized value, for every input.
C33_NormalizeIdempotent ==
  \A i \in {1, 2} :
     ts_call.applied[i] >= 2
       => ts_call.value[i] = normalize_timestamp(ts_call.input[i])

\* An ISO string with an offset has been normalized twice.
C33_Witness ==
  \E i \in {1, 2} :
     /\ ts_call.applied[i] = 2
     /\ ts_call.input[i].kind = "str"
     /\ ts_call.input[i].aware /\ ts_call.input[i].utcoffset > 0
     /\ ~ts_call.value[i].aware

\* A step of a run keeps, for every key of the source, its metadata row
\* and its blob if it had them.
SourceKeysKept ==
  \A k \in vpn_paths :
     /\ k \in bq_paths => k \in {r[1] : r \in bq_table'}
     /\ k \in gcs_bucket => k \in gcs_bucket'

\* C34: a run never deletes a file that exists at the source: no key of
\* the source snapshot is among the keys handed to the metadata delete
\* and the blob delete, and no step of any phase removes the metadata row
\* or the blob of a source key, whatever M and B contain.
C34_SourceFilesNeverDeleted ==
  /\ [][SourceKeysKept]_vars
  /\ [](to_delete \cap vpn_paths = {})

\* Delete has run, on a source key that has both its row and its blob.
C34_Witness ==
  /\ LastStep = "delete_gcs"
  /\ to_delete # {} /\ to_delete \cap bq_paths = {}
  /\ to_delete \cap gcs_bucket = {}
  /\ \E k \in vpn_paths : k \in bq_paths /\ k \in gcs_bucket

\* The metadata table has at most one row per key.
KeyUnique == Cardinality(bq_table) = Cardinality(bq_paths)

\* C35: key uniqueness of the metadata table is preserved: from a table
\* with at most one row per key, after any sequence of runs with any
\* pattern of failures the table has at most one row per key; the keys
\* Add is about to append have no row in the table.
C35_KeyUniquenessPreserved ==
  /\ KeyUnique
  /\ pc = "add_insert" => successfully_uploaded \cap bq_paths = {}

\* Add has appended the row of a new key to a table that held another
\* key, in a run after one in which an operation failed.
C35_Witness ==
  /\ LastStep = "add_insert"
  /\ \E k \in successfully_uploaded : k \in bq_paths
  /\ Cardinality(bq_table) >= 2
  /\ failures_left < MaxFailures

\* What a run started now would compute: nothing to add, delete or update.
NextRunIsNoOp ==
  LET c == Classify(vpn_data_of(scan_files(vpn_data)), bq_data_of(bq_table),
                    gcs_bucket)
  IN  /\ ~c.raised
      /\ c.to_add = {} /\ c.to_delete = {} /\ c.to_update = {}

\* A real run has ended in which no operation of the environment failed.
FailureFreeRunEnded == pc = "done" /\ ~dry_run /\ ~env_failed

\* C36: a converged state is a fixed point of sync: a run started with
\* keys(M) = keys(B) = keys(S) and equal timestamps computes empty to_add,
\* to_delete and to_update, returns success with all counters 0 and runs
\* no phase that writes to the metadata table or the blob store; and the
\* run that follows a failure-free run over an unchanged source is such a
\* no-op.
C36_ConvergedIsFixedPoint ==
  /\ (phases = <<"classify">> /\ Converged)
       => /\ to_add = {} /\ to_delete = {} /\ to_update = {}
          /\ pc = "log"
          /\ result = <<Outcome(TRUE, 0, 0, 0, "None")>>
  /\ (phases = <<"classify", "log">> /\ Converged)
       => result = <<Outcome(TRUE, 0, 0, 0, "None")>>
  /\ FailureFreeRunEnded => NextRunIsNoOp

\* C37: _delete_files returns True only if all its operations succeeded:
\* when it has returned True every key of to_delete has no metadata row
\* and no blob, and when the metadata delete failed for a batch it has
\* returned False.
C37_DeleteReturnsTrueOnlyIfAllSucceeded ==
  LastStep = "delete_gcs" =>
    /\ delete_success = "True"
         => (to_delete \cap bq_paths = {} /\ to_delete \cap gcs_bucket = {})
    /\ (MetadataDeleteFailed /\ ~error_occurred) => delete_success = "False"

====
